---------------------------- MODULE Spec2Model ----------------------------
(***************************************************************************)
(* The VegeHub integration (homeassistant/components/vegehub/__init__.py): *)
(* entry setup, entry unload, the background webhook registration and the  *)
(* webhook handler.                                                        *)
(*                                                                         *)
(* An optional value (a Python attribute or dict key that may be missing,  *)
(* None) is a sequence: <<>> when absent, <<x>> when present.              *)
(* A string the code formats or lower-cases is a sequence of characters.   *)
(***************************************************************************)
EXTENDS Integers, Sequences, FiniteSets, TLC

VARIABLES
    pc,             \* where the config entry is in its lifecycle
    device_mac,     \* entry.data[CONF_MAC]
    webhook_id,     \* the id generated by the latest async_setup_entry (0: none yet)
    hub_outcome,    \* how the latest hub.setup() ended
    setup_result,   \* what the latest async_setup_entry returned or raised
    runtime_data,   \* entry.runtime_data: <<>> or <<VegeHubData>>
    device_registry,\* MACs registered in the device registry
    platforms,      \* whether the entity platforms are set up
    task,           \* the "vegehub_register_webhook" background task
    webhooks,       \* the host's webhook registry: webhook id -> handler closure
    stop_listeners, \* webhook ids whose unregister_webhook listens for EVENT_HOMEASSISTANT_STOP
    on_unload,      \* webhook ids whose listener remover sits in the entry's on-unload list
    hook_runs,      \* webhook id -> how often unregister_webhook ran for it
    ever_registered,\* webhook ids webhook_register was called for
    stopped,        \* whether EVENT_HOMEASSISTANT_STOP has fired
    trace,          \* the steps of the latest async_setup_entry, in order
    unload_result,  \* what the latest async_unload_entry returned: <<>> or <<bool>>
    request,        \* the latest inbound webhook request: <<>> or <<request>>
    update_raises,  \* whether the coordinator's update raises for that request
    handler,        \* the handler closure the request is delivered to
    result          \* what the handler did with it: <<>> (not handled yet) or <<outcome>>

vars == <<pc, device_mac, webhook_id, hub_outcome, setup_result, runtime_data,
          device_registry, platforms, task, webhooks, stop_listeners, on_unload,
          hook_runs, ever_registered, stopped, trace, unload_result,
          request, update_raises, handler, result>>

lifecycle_vars == <<pc, device_mac, webhook_id, hub_outcome, setup_result, runtime_data,
                    device_registry, platforms, task, webhooks, stop_listeners,
                    on_unload, hook_runs, ever_registered, stopped, trace,
                    unload_result>>

---------------------------------------------------------------------------
(* Bounds *)

\* At most this many elements in a payload's "sensors" array
MaxSensors == 2
\* At most this many samples in a payload, over all its sensors
MaxSamples == 3
\* At most this many runs of async_setup_entry for the entry
MaxSetups == 2

---------------------------------------------------------------------------
(* Strings *)

UpperCase == <<"A", "B", "C", "D", "E", "F", "N">>
LowerCase == <<"a", "b", "c", "d", "e", "f", "n">>

\* str.lower() on one character
LowerChar(c) ==
    IF \E i \in DOMAIN UpperCase : UpperCase[i] = c
    THEN LowerCase[CHOOSE i \in DOMAIN UpperCase : UpperCase[i] = c]
    ELSE c

\* str.lower()
Lower(s) == [i \in DOMAIN s |-> LowerChar(s[i])]

Digits == <<"0", "1", "2", "3", "4", "5", "6", "7", "8", "9">>

\* How an f-string formats the slot: None when the key is missing, else the integer
FormatSlot(slot) ==
    IF slot = <<>> THEN <<"N", "o", "n", "e">> ELSE <<Digits[slot[1] + 1]>>

\* f"vegehub_{device_mac}_{slot}", before .lower()
EntityIdFormat(mac, slot) ==
    <<"v", "e", "g", "e", "h", "u", "b", "_">> \o mac \o <<"_">> \o FormatSlot(slot)

\* entity_id = f"vegehub_{device_mac}_{slot}".lower()
EntityId(mac, slot) == Lower(EntityIdFormat(mac, slot))

---------------------------------------------------------------------------
(* Inputs *)

Macs == { <<"A", "A", ":", "B", "1">>,
          <<"a", "a", ":", "b", "1">>,
          <<"A", "A", ":", "B", "2">> }

Slots == {<<>>, <<1>>, <<2>>}
Values == {1, 2}

\* One element of "samples": <<v>> holds its "v" field, <<>> has none
Samples == {<<>>} \cup {<<v>> : v \in Values}

\* How many samples the sensors before the i-th hold (counts[j] = -1: sensor j has no
\* "samples" key)
RECURSIVE SamplesBefore(_, _)
SamplesBefore(counts, i) ==
    IF i <= 1 THEN 0
    ELSE SamplesBefore(counts, i - 1) + (IF counts[i - 1] < 0 THEN 0 ELSE counts[i - 1])

TotalSamples(counts) == SamplesBefore(counts, Len(counts) + 1)

\* The "sensors" array whose i-th element has slot slots[i] and, unless counts[i] = -1,
\* the next counts[i] samples of `flat`
SensorArray(slots, counts, flat) ==
    [i \in 1..Len(counts) |->
        [slot |-> slots[i],
         samples |-> IF counts[i] < 0 THEN <<>>
                     ELSE <<SubSeq(flat, SamplesBefore(counts, i) + 1,
                                   SamplesBefore(counts, i) + counts[i])>>]]

\* How the samples of a payload may be spread over n sensors
SampleCounts(n) == {c \in [1..n -> -1..MaxSamples] : TotalSamples(c) <= MaxSamples}

Body(kind, sensors) == [kind |-> kind, sensors |-> sensors]

Request(body_exists, body) == [body_exists |-> body_exists, body |-> body]

\* A request without a body, and the bodies that hold no "sensors": not JSON at all,
\* a JSON number, a JSON array, a JSON object without the key
PlainRequests ==
    {Request(FALSE, Body("invalid", <<>>))}
    \cup {Request(TRUE, Body(k, <<>>)) : k \in {"invalid", "number", "array", "object"}}

\* A JSON object holding "sensors"
SensorsRequest(sensors) == Request(TRUE, Body("object", <<sensors>>))

---------------------------------------------------------------------------
(* The webhook handler *)

\* sensor_data[entity_id] = value
DictSet(d, k, v) == [x \in DOMAIN d \cup {k} |-> IF x = k THEN v ELSE d[x]]

EmptyDict == [x \in {} |-> 0]

\* Variant: the first sample instead of the last
LatestSampleFirst(samples) == samples[1]

\* sensor["samples"][-1]
LatestSample(samples) == samples[Len(samples)]

\* Variant: a malformed sensor is skipped instead of raising
SensorStepSkipMalformed(acc, sensor, mac) ==
    IF sensor.samples = <<>> THEN acc
    ELSE IF Len(sensor.samples[1]) = 0 THEN acc
    ELSE LET latest_sample == LatestSample(sensor.samples[1])
         IN  IF latest_sample = <<>> THEN acc
             ELSE [acc EXCEPT
                     !.sensor_data = DictSet(@, EntityId(mac, sensor.slot), latest_sample[1]),
                     !.extracted = @ + 1]

\* One pass of the loop body over `sensor`; acc is the loop's state so far
SensorStep(acc, sensor, mac) ==
    IF acc.error # "none" THEN acc
    ELSE IF sensor.samples = <<>> THEN [acc EXCEPT !.error = "KeyError"]
    ELSE IF Len(sensor.samples[1]) = 0 THEN [acc EXCEPT !.error = "IndexError"]
    ELSE LET latest_sample == LatestSample(sensor.samples[1])
         IN  IF latest_sample = <<>> THEN [acc EXCEPT !.error = "KeyError"]
             ELSE [acc EXCEPT
                     !.sensor_data = DictSet(@, EntityId(mac, sensor.slot), latest_sample[1]),
                     !.extracted = @ + 1]

RECURSIVE SensorLoopFrom(_, _, _, _)
SensorLoopFrom(acc, sensors, i, mac) ==
    IF i > Len(sensors) THEN acc
    ELSE SensorLoopFrom(SensorStep(acc, sensors[i], mac), sensors, i + 1, mac)

\* for sensor in data["sensors"]: ...
SensorLoop(sensors, mac) ==
    SensorLoopFrom([sensor_data |-> EmptyDict, error |-> "none", extracted |-> 0],
                   sensors, 1, mac)

Response(status, text) == <<[status |-> status, result |-> text]>>

Outcome(response, calls, error, parsed, extracted) ==
    [response |-> response, calls |-> calls, error |-> error, parsed |-> parsed,
     extracted |-> extracted]

NoBodyResponse == Response(400, "No Body")

OkResponse == Response(200, "OK")

\* Variant: the update is invoked whether or not a value was extracted
ShouldUpdateAlways(coordinator, sensor_data) == coordinator

\* if coordinator and sensor_data
ShouldUpdate(coordinator, sensor_data) == coordinator /\ DOMAIN sensor_data # {}

\* The handler after the loop: the update, unless the loop raised, and the response
AfterLoop(loop, coordinator, raises) ==
    IF loop.error # "none"
    THEN Outcome(<<>>, <<>>, loop.error, TRUE, loop.extracted)
    ELSE IF ShouldUpdate(coordinator, loop.sensor_data)
    THEN IF raises
         THEN Outcome(<<>>, <<loop.sensor_data>>, "UpdateError", TRUE, loop.extracted)
         ELSE Outcome(OkResponse, <<loop.sensor_data>>, "none", TRUE, loop.extracted)
    ELSE Outcome(OkResponse, <<>>, "none", TRUE, loop.extracted)

\* Variant: a payload without sensors is answered 400
HandleObjectRequiresSensors(body, mac, coordinator, raises) ==
    IF body.sensors = <<>> \/ body.sensors = << <<>> >>
    THEN Outcome(NoBodyResponse, <<>>, "none", TRUE, 0)
    ELSE AfterLoop(SensorLoop(body.sensors[1], mac), coordinator, raises)

\* The handler once the body parsed to a JSON object: the loop runs only
\* if "sensors" in data
HandleObject(body, mac, coordinator, raises) ==
    IF body.sensors = <<>>
    THEN AfterLoop(SensorLoop(<<>>, mac), coordinator, raises)
    ELSE AfterLoop(SensorLoop(body.sensors[1], mac), coordinator, raises)

\* What request.json() and `"sensors" in data` make of a body that is present:
\* request.json() raises on a body that is not JSON; `in` raises TypeError on a
\* number; an array here is one that does not hold the string "sensors"
HandleBody(req, mac, coordinator, raises) ==
    CASE req.body.kind = "invalid" -> Outcome(<<>>, <<>>, "JSONDecodeError", TRUE, 0)
      [] req.body.kind = "number" -> Outcome(<<>>, <<>>, "TypeError", TRUE, 0)
      [] req.body.kind = "array" -> Outcome(OkResponse, <<>>, "none", TRUE, 0)
      [] OTHER -> HandleObject(req.body, mac, coordinator, raises)

\* Variant: request.json() before the body_exists test
async_webhook_handler_parse_first(req, mac, coordinator, raises) ==
    IF ~req.body_exists
    THEN Outcome(<<>>, <<>>, "JSONDecodeError", TRUE, 0)
    ELSE HandleBody(req, mac, coordinator, raises)

\* async_webhook_handler(hass, webhook_id, request) of the closure (mac, coordinator)
async_webhook_handler(req, mac, coordinator, raises) ==
    IF ~req.body_exists
    THEN Outcome(NoBodyResponse, <<>>, "none", FALSE, 0)
    ELSE HandleBody(req, mac, coordinator, raises)

\* get_webhook_handler(device_mac, entry_id, coordinator)
get_webhook_handler(mac, coordinator) == [device_mac |-> mac, coordinator |-> coordinator]

---------------------------------------------------------------------------
(* Entry setup, the background task, entry unload, host stop *)

HubOutcomes == {"ok", "ConnectionError", "TimeoutError", "OtherError"}

\* Variant: both exceptions raise ConfigEntryNotReady
SetupErrorAllNotReady(outcome) ==
    IF outcome \in {"ConnectionError", "TimeoutError"} THEN "ConfigEntryNotReady"
    ELSE outcome

\* Variant: both exceptions raise ConfigEntryError
SetupErrorAllTerminal(outcome) ==
    IF outcome \in {"ConnectionError", "TimeoutError"} THEN "ConfigEntryError"
    ELSE outcome

\* What async_setup_entry raises when hub.setup() raised `outcome`: the two except
\* clauses; any other exception propagates as it is
SetupError(outcome) ==
    CASE outcome = "ConnectionError" -> "ConfigEntryError"
      [] outcome = "TimeoutError" -> "ConfigEntryNotReady"
      [] OTHER -> outcome

\* VegeHubData(coordinator=VegeHubCoordinator(...), hub=hub)
VegeHubData == [coordinator |-> TRUE, hub |-> TRUE]

\* Variant: the runtime data is attached before hub.setup() is awaited
AfterHubSetupAttachFirst(outcome, rd, registry, mac) ==
    IF outcome = "ok"
    THEN [runtime_data |-> <<VegeHubData>>, device_registry |-> registry \cup {mac},
          steps |-> <<"runtime_data", "hub_setup", "device_registered">>,
          raised |-> "none"]
    ELSE [runtime_data |-> <<VegeHubData>>, device_registry |-> registry,
          steps |-> <<"runtime_data">>, raised |-> SetupError(outcome)]

\* async_setup_entry from the return of hub.setup() to the call that forwards the
\* platforms: raise, or attach the runtime data and register the device
AfterHubSetup(outcome, rd, registry, mac) ==
    IF outcome = "ok"
    THEN [runtime_data |-> <<VegeHubData>>, device_registry |-> registry \cup {mac},
          steps |-> <<"hub_setup", "runtime_data", "device_registered">>,
          raised |-> "none"]
    ELSE [runtime_data |-> rd, device_registry |-> registry,
          steps |-> <<>>, raised |-> SetupError(outcome)]

\* Variant: the task is created before the platforms are forwarded
TaskCreatedBeforeForward == "pending"

\* The background task while the platforms are being forwarded: it is created only
\* after async_forward_entry_setups has returned
TaskWhileForwarding == "none"

\* The host's state of the entry after a setup that raised `raised`
PcAfterRaise(raised) ==
    IF raised = "ConfigEntryNotReady" THEN "setup_retry" ELSE "setup_error"

Init ==
    /\ pc = "not_loaded"
    /\ device_mac \in Macs
    /\ webhook_id = 0
    /\ hub_outcome = "none"
    /\ setup_result = "none"
    /\ runtime_data = <<>>
    /\ device_registry = {}
    /\ platforms = FALSE
    /\ task = "none"
    /\ webhooks = [i \in {} |-> get_webhook_handler(device_mac, TRUE)]
    /\ stop_listeners = {}
    /\ on_unload = {}
    /\ hook_runs = [i \in 1..MaxSetups |-> 0]
    /\ ever_registered = {}
    /\ stopped = FALSE
    /\ trace = <<>>
    /\ unload_result = <<>>
    /\ request = <<>>
    /\ update_raises = FALSE
    /\ handler = <<>>
    /\ result = <<>>

handler_vars == <<request, update_raises, handler, result>>

\* async_setup_entry up to `await hub.setup(...)`: a fresh webhook id and its URL
SetupStart ==
    /\ ~stopped
    /\ pc \in {"not_loaded", "setup_error", "setup_retry"}
    /\ webhook_id < MaxSetups
    /\ webhook_id' = webhook_id + 1
    /\ pc' = "await_hub_setup"
    /\ hub_outcome' = "pending"
    /\ setup_result' = "none"
    /\ trace' = <<>>
    /\ task' = "none"
    /\ unload_result' = <<>>
    /\ UNCHANGED <<device_mac, runtime_data, device_registry, platforms, webhooks,
                   stop_listeners, on_unload, hook_runs, ever_registered, stopped,
                   handler_vars>>

\* hub.setup() returns or raises; async_setup_entry runs on to
\* `await async_forward_entry_setups(...)` or raises
HubSetupReturns ==
    /\ ~stopped
    /\ pc = "await_hub_setup"
    /\ \E outcome \in HubOutcomes :
        LET after == AfterHubSetup(outcome, runtime_data, device_registry, device_mac)
        IN  /\ hub_outcome' = outcome
            /\ runtime_data' = after.runtime_data
            /\ device_registry' = after.device_registry
            /\ trace' = trace \o after.steps
            /\ setup_result' = after.raised
            /\ pc' = IF after.raised = "none" THEN "await_forward"
                     ELSE PcAfterRaise(after.raised)
            /\ task' = IF after.raised = "none" THEN TaskWhileForwarding ELSE task
    /\ UNCHANGED <<device_mac, webhook_id, platforms, webhooks, stop_listeners,
                   on_unload, hook_runs, ever_registered, stopped, unload_result,
                   handler_vars>>

\* register_webhook(): webhook_register(...), then
\* entry.async_on_unload(hass.bus.async_listen_once(EVENT_HOMEASSISTANT_STOP, unregister_webhook)).
\* async_listen_once returns the callable that removes the listener, and the entry
\* calls what it was handed through async_on_unload when it is unloaded.
register_webhook ==
    /\ webhooks' = [i \in DOMAIN webhooks \cup {webhook_id} |->
                      IF i = webhook_id
                      THEN get_webhook_handler(device_mac, runtime_data[1].coordinator)
                      ELSE webhooks[i]]
    /\ ever_registered' = ever_registered \cup {webhook_id}
    /\ stop_listeners' = stop_listeners \cup {webhook_id}
    /\ on_unload' = on_unload \cup {webhook_id}

\* async_forward_entry_setups returns; async_setup_entry creates the background task
\* and runs on to `await hub.request_update()`. The host may run the task's body at
\* once (eager) or leave it for the event loop.
ForwardReturns ==
    /\ ~stopped
    /\ pc = "await_forward"
    /\ platforms' = TRUE
    /\ pc' = "await_refresh"
    /\ \E eager \in BOOLEAN :
        IF eager
        THEN /\ register_webhook
             /\ task' = "done"
             /\ trace' = trace \o <<"platforms_forwarded", "task_created",
                                    "webhook_registered", "refresh_requested">>
        ELSE /\ task' = "pending"
             /\ trace' = trace \o <<"platforms_forwarded", "task_created",
                                    "refresh_requested">>
             /\ UNCHANGED <<webhooks, ever_registered, stop_listeners, on_unload>>
    /\ UNCHANGED <<device_mac, webhook_id, hub_outcome, setup_result, runtime_data,
                   device_registry, hook_runs, stopped, unload_result, handler_vars>>

\* The event loop runs the background task
RunRegisterTask ==
    /\ ~stopped
    /\ task = "pending"
    /\ register_webhook
    /\ task' = "done"
    /\ trace' = trace \o <<"webhook_registered">>
    /\ UNCHANGED <<pc, device_mac, webhook_id, hub_outcome, setup_result, runtime_data,
                   device_registry, platforms, hook_runs, stopped, unload_result,
                   handler_vars>>

\* hub.request_update() returns; async_setup_entry returns True
RefreshReturns ==
    /\ ~stopped
    /\ pc = "await_refresh"
    /\ pc' = "loaded"
    /\ setup_result' = "True"
    /\ UNCHANGED <<device_mac, webhook_id, hub_outcome, runtime_data, device_registry,
                   platforms, task, webhooks, stop_listeners, on_unload, hook_runs,
                   ever_registered, stopped, trace, unload_result, handler_vars>>

\* async_unload_entry: returns what async_unload_platforms returns
async_unload_entry ==
    /\ ~stopped
    /\ pc = "loaded"
    /\ \E ok \in BOOLEAN :
        /\ unload_result' = <<ok>>
        /\ platforms' = IF ok THEN FALSE ELSE platforms
    /\ pc' = "unload_returned"
    /\ UNCHANGED <<device_mac, webhook_id, hub_outcome, setup_result, runtime_data,
                   device_registry, task, webhooks, stop_listeners, on_unload,
                   hook_runs, ever_registered, stopped, trace, handler_vars>>

\* The host after async_unload_entry returned. After True it calls what the entry was
\* handed through async_on_unload (here: the removers of the stop listeners), cancels
\* the entry's background task if it has not run, and drops the runtime data; after
\* False it leaves the entry as it is.
HostAfterUnload ==
    /\ ~stopped
    /\ pc = "unload_returned"
    /\ IF unload_result[1]
       THEN /\ pc' = "not_loaded"
            /\ stop_listeners' = stop_listeners \ on_unload
            /\ on_unload' = {}
            /\ task' = IF task = "pending" THEN "cancelled" ELSE task
            /\ runtime_data' = <<>>
       ELSE /\ pc' = "failed_unload"
            /\ UNCHANGED <<stop_listeners, on_unload, task, runtime_data>>
    /\ UNCHANGED <<device_mac, webhook_id, hub_outcome, setup_result, device_registry,
                   platforms, webhooks, hook_runs, ever_registered, stopped, trace,
                   unload_result, handler_vars>>

\* unregister_webhook(_) for every webhook id in `ids`: webhook_unregister(hass, webhook_id)
unregister_webhook(ids) ==
    /\ webhooks' = [i \in DOMAIN webhooks \ ids |-> webhooks[i]]
    /\ hook_runs' = [i \in DOMAIN hook_runs |->
                       IF i \in ids THEN hook_runs[i] + 1 ELSE hook_runs[i]]

\* EVENT_HOMEASSISTANT_STOP fires: every listener still registered runs, once
HostStop ==
    /\ ~stopped
    /\ stopped' = TRUE
    /\ unregister_webhook(stop_listeners)
    /\ stop_listeners' = {}
    /\ UNCHANGED <<pc, device_mac, webhook_id, hub_outcome, setup_result, runtime_data,
                   device_registry, platforms, task, on_unload, ever_registered, trace,
                   unload_result, handler_vars>>

\* The requests the device posts while the entry lives
PostedRequests ==
    PlainRequests
    \cup { SensorsRequest(<<>>),
           SensorsRequest(<<[slot |-> <<1>>, samples |-> <<<< <<1>>, <<2>> >>>>]>>),
           SensorsRequest(<<[slot |-> <<1>>, samples |-> <<<< <<1>> >>>>],
                            [slot |-> <<2>>, samples |-> <<>>]>>) }

\* The host delivers a POST to a registered webhook
WebhookPost ==
    /\ ~stopped
    /\ \E id \in DOMAIN webhooks, r \in PostedRequests, raises \in BOOLEAN :
        /\ request' = <<r>>
        /\ update_raises' = raises
        /\ handler' = <<webhooks[id]>>
        /\ result' = <<async_webhook_handler(r, webhooks[id].device_mac,
                                             webhooks[id].coordinator, raises)>>
    /\ UNCHANGED lifecycle_vars

Next ==
    \/ SetupStart
    \/ HubSetupReturns
    \/ ForwardReturns
    \/ RunRegisterTask
    \/ RefreshReturns
    \/ async_unload_entry
    \/ HostAfterUnload
    \/ HostStop
    \/ WebhookPost

Spec == Init /\ [][Next]_vars

---------------------------------------------------------------------------
(* The handler on every bounded request *)

InitWebhook ==
    /\ pc = "loaded"
    /\ device_mac \in Macs
    /\ webhook_id = 1
    /\ hub_outcome = "ok"
    /\ setup_result = "True"
    /\ runtime_data = <<VegeHubData>>
    /\ device_registry = {device_mac}
    /\ platforms = TRUE
    /\ task = "done"
    /\ webhooks = [i \in {1} |-> get_webhook_handler(device_mac, TRUE)]
    /\ stop_listeners = {1}
    /\ on_unload = {1}
    /\ hook_runs = [i \in 1..MaxSetups |-> 0]
    /\ ever_registered = {1}
    /\ stopped = FALSE
    /\ trace = <<>>
    /\ unload_result = <<>>
    /\ \/ \E n \in 0..MaxSensors : \E counts \in SampleCounts(n) :
            \E slots \in [1..n -> Slots], flat \in [1..TotalSamples(counts) -> Samples] :
                request = <<SensorsRequest(SensorArray(slots, counts, flat))>>
       \/ \E r \in PlainRequests : request = <<r>>
    /\ update_raises \in BOOLEAN
    /\ handler = <<webhooks[1]>>
    /\ result = <<>>

\* The host delivers the request to the registered handler
HandleRequest ==
    /\ request # <<>>
    /\ result = <<>>
    /\ handler # <<>>
    /\ result' = <<async_webhook_handler(request[1], handler[1].device_mac,
                                         handler[1].coordinator, update_raises)>>
    /\ UNCHANGED <<lifecycle_vars, request, update_raises, handler>>

NextWebhook == HandleRequest

SpecWebhook == InitWebhook /\ [][NextWebhook]_vars

---------------------------------------------------------------------------
(* Properties of the webhook handler, checked under SpecWebhook *)

Handled == request # <<>> /\ result # <<>>

SensorsOf(r) == IF r.body.sensors = <<>> THEN <<>> ELSE r.body.sensors[1]

HasSensorsArray(r) == r.body_exists /\ r.body.kind = "object" /\ r.body.sensors # <<>>

WellFormedSensor(s) ==
    /\ s.samples # <<>>
    /\ Len(s.samples[1]) > 0
    /\ s.samples[1][Len(s.samples[1])] # <<>>

AllWellFormed(r) == \A i \in DOMAIN SensorsOf(r) : WellFormedSensor(SensorsOf(r)[i])

LastValue(s) == s.samples[1][Len(s.samples[1])][1]

\* "vegehub_<mac>_<slot>" with mac and slot each in lower case
ExpectedKey(mac, slot) ==
    <<"v", "e", "g", "e", "h", "u", "b", "_">> \o Lower(mac) \o <<"_">>
        \o Lower(FormatSlot(slot))

ExpectedKeys(r, mac) ==
    {ExpectedKey(mac, SensorsOf(r)[i].slot) : i \in DOMAIN SensorsOf(r)}

\* No later sensor of the array has the key of the i-th
LastWithItsKey(r, i) ==
    \A j \in DOMAIN SensorsOf(r) : j > i => SensorsOf(r)[j].slot # SensorsOf(r)[i].slot

\* C1: a request without a body is answered 400 "No Body", is not parsed, and does not
\* reach the coordinator's update.
C1_NoBodyIs400 ==
    (Handled /\ ~request[1].body_exists) =>
        /\ result[1].response = <<[status |-> 400, result |-> "No Body"]>>
        /\ ~result[1].parsed
        /\ result[1].calls = <<>>
        /\ result[1].error = "none"

\* C1: a request without a body was answered
C1_Witness == Handled /\ ~request[1].body_exists /\ result[1].response # <<>>

\* The keys of the mapping handed over are the lower-cased "vegehub_<mac>_<slot>" of the
\* sensors, the same for every MAC that differs from the device's only in letter case
C2_Keys(r, mac, m) ==
    /\ DOMAIN m = ExpectedKeys(r, mac)
    /\ \A m2 \in Macs : Lower(m2) = Lower(mac) =>
          \A slot \in Slots : EntityId(m2, slot) = ExpectedKey(mac, slot)

\* Every sensor of the payload has an integer "slot"
AllHaveSlots(r) == \A i \in DOMAIN SensorsOf(r) : SensorsOf(r)[i].slot # <<>>

\* C2 as stated: for a well-formed payload (every sensor with a slot and with samples
\* whose last has "v") the mapping handed to the coordinator holds, for each sensor,
\* the last sample's "v" under the sensor's lower-cased key.
C2_Claim ==
    (Handled /\ HasSensorsArray(request[1]) /\ AllWellFormed(request[1])
             /\ AllHaveSlots(request[1]) /\ result[1].calls # <<>>) =>
        LET r == request[1]
            mac == handler[1].device_mac
            m == result[1].calls[1]
        IN  /\ C2_Keys(r, mac, m)
            /\ \A i \in DOMAIN SensorsOf(r) :
                  m[ExpectedKey(mac, SensorsOf(r)[i].slot)] = LastValue(SensorsOf(r)[i])

\* C2, amended: for a well-formed payload the mapping handed to the coordinator has the
\* sensors' lower-cased keys "vegehub_<mac>_<slot>", the same for MACs that differ only
\* in letter case, and holds under each key the last sample's "v" of the last sensor
\* of the array with that slot (of two sensors with one slot the later one wins).
C2_LastSampleOfLastSensor ==
    (Handled /\ HasSensorsArray(request[1]) /\ AllWellFormed(request[1])
             /\ result[1].calls # <<>>) =>
        LET r == request[1]
            mac == handler[1].device_mac
            m == result[1].calls[1]
        IN  /\ C2_Keys(r, mac, m)
            /\ \A i \in DOMAIN SensorsOf(r) :
                  LastWithItsKey(r, i) =>
                      m[ExpectedKey(mac, SensorsOf(r)[i].slot)] = LastValue(SensorsOf(r)[i])

\* C2: two sensors with one slot and different last values, the later with an earlier
\* sample of another value, for a MAC with upper-case letters
C2_Witness ==
    /\ Handled /\ HasSensorsArray(request[1]) /\ AllWellFormed(request[1])
    /\ result[1].calls # <<>>
    /\ Len(SensorsOf(request[1])) = 2
    /\ SensorsOf(request[1])[1].slot = SensorsOf(request[1])[2].slot
    /\ AllHaveSlots(request[1])
    /\ LastValue(SensorsOf(request[1])[1]) # LastValue(SensorsOf(request[1])[2])
    /\ Len(SensorsOf(request[1])[2].samples[1]) = 2
    /\ SensorsOf(request[1])[2].samples[1][1] # SensorsOf(request[1])[2].samples[1][2]
    /\ handler[1].device_mac # Lower(handler[1].device_mac)

\* The update was invoked at most once, and if so with a mapping holding every
\* sensor's key
C3_OneFullCall ==
    /\ Len(result[1].calls) <= 1
    /\ result[1].calls # <<>> =>
          /\ DOMAIN result[1].calls[1] = ExpectedKeys(request[1], handler[1].device_mac)
          /\ result[1].extracted = Len(SensorsOf(request[1]))

\* C3 as stated: with a body, the update is invoked at most once, with the full
\* mapping, and exactly once if and only if at least one sample value was extracted.
C3_Claim ==
    (Handled /\ request[1].body_exists) =>
        /\ C3_OneFullCall
        /\ Len(result[1].calls) = 1 <=> result[1].extracted >= 1

\* C3, amended: with a body, the update is invoked at most once, with the full
\* mapping, and exactly once if and only if at least one sample value was extracted
\* and every sensor of the payload is well-formed (the loop ended without an error).
C3_OnceIffExtractedAndWellFormed ==
    (Handled /\ request[1].body_exists) =>
        /\ C3_OneFullCall
        /\ Len(result[1].calls) = 1 <=>
              (result[1].extracted >= 1 /\ AllWellFormed(request[1]))
        /\ Len(result[1].calls) = 1 <=>
              (result[1].extracted >= 1 /\ result[1].error \notin {"KeyError", "IndexError"})

\* C3: two sensors with different keys, one update
C3_Witness ==
    /\ Handled /\ request[1].body_exists
    /\ Len(result[1].calls) = 1
    /\ Cardinality(DOMAIN result[1].calls[1]) = 2
    /\ result[1].extracted = 2

C4_OkAndNoUpdateWithoutSensors ==
    /\ result[1].response = <<[status |-> 200, result |-> "OK"]>>
    /\ Len(SensorsOf(request[1])) = 0 => result[1].calls = <<>>

C10_MalformedRaises ==
    (Handled /\ HasSensorsArray(request[1]) /\ ~AllWellFormed(request[1])) =>
        /\ result[1].error \in {"KeyError", "IndexError"}
        /\ result[1].response = <<>>
        /\ result[1].calls = <<>>

\* C10: a well-formed sensor, its value extracted, before a malformed one
C10_Witness ==
    /\ Handled /\ HasSensorsArray(request[1])
    /\ Len(SensorsOf(request[1])) = 2
    /\ WellFormedSensor(SensorsOf(request[1])[1])
    /\ ~WellFormedSensor(SensorsOf(request[1])[2])
    /\ result[1].extracted = 1

---------------------------------------------------------------------------
(* Properties of the entry's lifecycle, checked under Spec *)

\* C5: a connection error of hub.setup() ends entry setup with ConfigEntryError, not
\* with ConfigEntryNotReady and not with success.
C5_ConnectionErrorIsTerminal ==
    hub_outcome = "ConnectionError" =>
        /\ setup_result = "ConfigEntryError"
        /\ pc \in {"setup_error", "setup_retry"}

\* C5: hub.setup() raised ConnectionError and setup has ended
C5_Witness == hub_outcome = "ConnectionError" /\ setup_result # "none"

\* C6: a timeout of hub.setup() ends entry setup with ConfigEntryNotReady, not with
\* ConfigEntryError and not with success.
C6_TimeoutIsNotReady ==
    hub_outcome = "TimeoutError" =>
        /\ setup_result = "ConfigEntryNotReady"
        /\ pc \in {"setup_error", "setup_retry"}

\* C6: hub.setup() raised TimeoutError and setup has ended
C6_Witness == hub_outcome = "TimeoutError" /\ setup_result # "none"

C8_Claim ==
    /\ ~stopped => \A i \in DOMAIN hook_runs : hook_runs[i] = 0
    /\ stopped => \A i \in ever_registered :
                      i \notin DOMAIN webhooks /\ hook_runs[i] = 1

IsSetupStep(step) == step # "webhook_registered"

SetupOrder == <<"hub_setup", "runtime_data", "device_registered", "platforms_forwarded",
                "task_created", "refresh_requested">>

Before(a, b) ==
    \A i \in DOMAIN trace : trace[i] = b => \E j \in 1..(i - 1) : trace[j] = a

\* C9: entry setup runs hub.setup(), attaches the runtime data, registers the device,
\* forwards the platforms, creates the background task and requests the refresh, in
\* this order; the webhook is never registered before the platforms are forwarded;
\* when hub.setup() fails none of the later steps happens.
C9_SetupOrder ==
    LET steps == SelectSeq(trace, IsSetupStep)
    IN  /\ Len(steps) <= Len(SetupOrder)
        /\ steps = SubSeq(SetupOrder, 1, Len(steps))
        /\ Before("platforms_forwarded", "webhook_registered")
        /\ Before("task_created", "webhook_registered")
        /\ webhook_id \in ever_registered => \E i \in DOMAIN trace : trace[i] = "platforms_forwarded"
        /\ setup_result = "True" => steps = SetupOrder
        /\ hub_outcome \in {"ConnectionError", "TimeoutError", "OtherError"} =>
              /\ trace = <<>>
              /\ task = "none"
              /\ webhook_id \notin ever_registered

\* C9: a setup that returned True with the webhook registered on the way
C9_Witness ==
    /\ setup_result = "True"
    /\ Len(trace) = 7
    /\ webhook_id \in DOMAIN webhooks

=============================================================================
